---- MODULE Spec2Model ----
(***************************************************************************)
(* inspect_langcodes.py: main(argv) and _collect_related_codes, over a     *)
(* small world of the langcodes library.                                   *)
(*                                                                         *)
(* Representation.  A Python str is a sequence of atoms: "en-Latn-US" is   *)
(* <<"en","Latn","US">> (the "-" between two atoms is implicit) and the    *)
(* atom " " is one blank, so "American English" is                         *)
(* <<"American"," ","English">> and "" is << >>.  None (for a str) is      *)
(* NoneStr, an exception leaving a call is RaiseStr / RaiseLang / -1.      *)
(* A Language object is a record of its four attributes, "" for None.      *)
(***************************************************************************)
EXTENDS Integers, Sequences, FiniteSets, TLC

(***************************************************************************)
(* Sentinels                                                               *)
(***************************************************************************)
NoneStr == <<"None">>
RaiseStr == <<"Raise">>
NoneLang == [language |-> "None", script |-> "None", territory |-> "None", variant |-> "None"]
RaiseLang == [language |-> "Raise", script |-> "Raise", territory |-> "Raise", variant |-> "Raise"]
DistRaise == 0 - 1

\* Python truthiness of an optional str: None and "" are falsy.
Truthy(s) == s # NoneStr /\ s # << >>

MkLang(l, s, t, v) == [language |-> l, script |-> s, territory |-> t, variant |-> v]

(***************************************************************************)
(* program constants                                                       *)
(***************************************************************************)
MAX_NEAR_DISTANCE == 1
US_TERRITORY_LANG_ALLOWLIST == {"en", "es"}

(***************************************************************************)
(* The langcodes world: subtags, data tables, parsing, standardization.    *)
(***************************************************************************)
\* subtags the tag parser accepts in language position (any well-formed one)
LanguageSubtags == {"en", "haw", "zh", "yue", "cmn", "he", "iw", "zxx", "zz",
                    "eng", "zho", "chi", "heb", "und"}
\* languages tag_is_valid accepts
RegisteredLanguages == {"en", "haw", "zh", "yue", "cmn", "he", "iw", "zxx"}
Scripts == {"Latn", "Hans", "Hant", "Hebr"}
Territories == {"US", "CN", "HK", "IL"}
Variants == {"posix"}

\* str.upper() / str.lower() / the parser's case normalisation, on the atoms
\* that occur in another case
Upper(a) == CASE a = "us" -> "US" [] a = "en" -> "EN" [] a = "es" -> "ES" [] OTHER -> a
Lower(a) == CASE a = "US" -> "us" [] a = "EN" -> "en" [] a = "ES" -> "es" [] OTHER -> a

\* data_dicts, as sequences of <<key, value>> in dict order
MACROLANGUAGES == << <<"cmn", "zh">>, <<"yue", "zh">> >>
NORMALIZED_MACROLANGUAGES == << <<"cmn", "zh">> >>
LANGUAGE_REPLACEMENTS == << <<"iw", "he">>, <<"eng", "en">>, <<"zho", "zh">>,
                            <<"chi", "zh">>, <<"heb", "he">> >>
LANGUAGE_ALPHA3 == << <<"en", "eng">>, <<"haw", "haw">>, <<"zh", "zho">>,
                      <<"yue", "yue">>, <<"he", "heb">>, <<"zxx", "zxx">> >>
LANGUAGE_ALPHA3_BIBLIOGRAPHIC == << <<"en", "eng">>, <<"zh", "chi">>, <<"he", "heb">> >>

\* dict.get(key): the value, or "" (None) when the key is absent
RECURSIVE DictGet(_, _)
DictGet(d, key) ==
    IF d = << >> THEN ""
    ELSE IF Head(d)[1] = key THEN Head(d)[2] ELSE DictGet(Tail(d), key)

\* [code for code, value in d.items() if value == target], in dict order
RECURSIVE KeysWithValue(_, _)
KeysWithValue(d, target) ==
    IF d = << >> THEN << >>
    ELSE IF Head(d)[2] = target
         THEN << <<Head(d)[1]>> >> \o KeysWithValue(Tail(d), target)
         ELSE KeysWithValue(Tail(d), target)

\* Language.to_tag(): language (or "und"), script, territory, variant
to_tag(lang) ==
    <<IF lang.language = "" THEN "und" ELSE lang.language>>
    \o (IF lang.script = "" THEN << >> ELSE <<lang.script>>)
    \o (IF lang.territory = "" THEN << >> ELSE <<lang.territory>>)
    \o (IF lang.variant = "" THEN << >> ELSE <<lang.variant>>)

\* the tag grammar, case-insensitive: language [script] [territory] [variant];
\* RaiseLang for anything else (LanguageTagError).  No normalisation yet.
ParseVariant(l, sc, t, rest) ==
    IF rest = << >> THEN MkLang(l, sc, t, "")
    ELSE IF Len(rest) = 1 /\ rest[1] \in Variants THEN MkLang(l, sc, t, rest[1])
    ELSE RaiseLang

ParseTerritory(l, sc, rest) ==
    IF rest # << >> /\ Upper(rest[1]) \in Territories
    THEN ParseVariant(l, sc, Upper(rest[1]), Tail(rest))
    ELSE ParseVariant(l, sc, "", rest)

ParseScript(l, rest) ==
    IF rest # << >> /\ rest[1] \in Scripts
    THEN ParseTerritory(l, rest[1], Tail(rest))
    ELSE ParseTerritory(l, "", rest)

ParseRaw(s) ==
    IF s = << >> \/ s = NoneStr \/ s = RaiseStr THEN RaiseLang
    ELSE IF Lower(s[1]) \notin LanguageSubtags THEN RaiseLang
    ELSE ParseScript(IF Lower(s[1]) = "und" THEN "" ELSE Lower(s[1]), Tail(s))

\* the normalisation Language.get applies to the language subtag: an
\* entry of LANGUAGE_REPLACEMENTS is replaced, a normalized macrolanguage
\* member becomes its macrolanguage
MacroOf(l) ==
    IF DictGet(NORMALIZED_MACROLANGUAGES, l) # ""
    THEN DictGet(NORMALIZED_MACROLANGUAGES, l) ELSE l

NormalizeLanguage(l) ==
    MacroOf(IF DictGet(LANGUAGE_REPLACEMENTS, l) # ""
            THEN DictGet(LANGUAGE_REPLACEMENTS, l) ELSE l)

NormalizeParsed(p) ==
    IF p = RaiseLang THEN RaiseLang
    ELSE [p EXCEPT !.language = NormalizeLanguage(p.language)]

\* Language.get(tag)
LanguageGet(s) == NormalizeParsed(ParseRaw(s))

\* tag_is_valid(tag): well-formed and made of registered subtags
ValidParsed(p) == p # RaiseLang /\ p.language \in RegisteredLanguages
tag_is_valid(s) == ValidParsed(ParseRaw(s))

DefaultScript(l) ==
    CASE l = "en" -> "Latn" [] l = "haw" -> "Latn" [] l = "he" -> "Hebr" [] OTHER -> ""

\* Language.simplify_script()
SimplifyScript(lang) ==
    IF lang.script # "" /\ lang.script = DefaultScript(lang.language)
    THEN [lang EXCEPT !.script = ""] ELSE lang

\* standardize_tag(tag): parse with normalisation, drop a default script
TagOfParsed(p) == IF p = RaiseLang THEN RaiseStr ELSE to_tag(SimplifyScript(p))
standardize_tag(s) == TagOfParsed(LanguageGet(s))

\* likely subtags
LikelyScript(l) ==
    CASE l = "en" -> "Latn" [] l = "haw" -> "Latn" [] l = "zh" -> "Hans"
      [] l = "cmn" -> "Hans" [] l = "yue" -> "Hant" [] l = "he" -> "Hebr" [] OTHER -> ""
LikelyTerritory(l) ==
    CASE l = "en" -> "US" [] l = "haw" -> "US" [] l = "zh" -> "CN"
      [] l = "cmn" -> "CN" [] l = "yue" -> "HK" [] l = "he" -> "IL" [] OTHER -> ""

\* Language.maximize() when the likely-subtags data is usable
MaximizeData(lang) ==
    [lang EXCEPT !.script = IF lang.script = "" THEN LikelyScript(lang.language) ELSE lang.script,
                 !.territory = IF lang.territory = "" THEN LikelyTerritory(lang.language)
                               ELSE lang.territory]

\* Language.minimize() when the likely-subtags data is usable
MinimizeData(lang) ==
    [lang EXCEPT !.script = IF lang.script = LikelyScript(lang.language) THEN "" ELSE lang.script,
                 !.territory = IF lang.territory = LikelyTerritory(lang.language) THEN ""
                               ELSE lang.territory]

(***************************************************************************)
(* State                                                                   *)
(***************************************************************************)
VARIABLES
    entry,        \* "main": the script is run; "collect": the function is called
    world,        \* the library data in use: [dist, fault]
    argv,         \* [help, simple, words]: options and positional words
    pc,           \* position in main / _collect_related_codes
    exit,         \* process status, NoExit while running
    stdout,       \* lines printed, in order
    stderr,
    calls,        \* which library entry points have been called so far
    query, lang, tag, maximized, related, pidx,          \* locals of main
    c_lang, c_maximized, c_base_tag,                     \* arguments of _collect_related_codes
    tags, seen, origin, primary, reference, filtered, idx, result

mainVars == <<query, lang, tag, maximized, related, pidx>>
argVars == <<c_lang, c_maximized, c_base_tag>>
accVars == <<tags, seen, origin>>
filterVars == <<primary, reference, filtered, idx, result>>
ioVars == <<exit, stdout, stderr>>
envVars == <<entry, world, argv>>
vars == <<entry, world, argv, pc, exit, stdout, stderr, calls,
          query, lang, tag, maximized, related, pidx,
          c_lang, c_maximized, c_base_tag,
          tags, seen, origin, primary, reference, filtered, idx, result>>

NoExit == 0 - 1

(***************************************************************************)
(* The library calls whose outcome depends on the data in use              *)
(***************************************************************************)
\* lang.maximize() / lang.minimize(): RaiseLang when the call raises
maximize(l) == IF world.fault = "maximize" THEN RaiseLang ELSE MaximizeData(l)
minimize(l) == IF world.fault = "minimize" THEN RaiseLang ELSE MinimizeData(l)

\* whether the name data needed to name l is missing
NameRaises(l) ==
    \/ world.fault = "names"
    \/ world.fault = "script_names" /\ l.script # ""

\* lang.display_name(), lang.describe(): a str, RaiseStr when the call raises
display_name(l) == IF NameRaises(l) THEN RaiseStr ELSE <<"Name">> \o to_tag(l)
describe(l) == IF NameRaises(l) THEN RaiseStr ELSE <<"Desc">> \o to_tag(l)

\* find(name): the language of an English name, RaiseLang (LookupError) otherwise
find(q) ==
    IF world.fault = "names" THEN RaiseLang
    ELSE CASE q = <<"English">> -> MkLang("en", "", "", "")
           [] q = <<"American", " ", "English">> -> MkLang("en", "", "US", "")
           [] q = <<"Cantonese">> -> MkLang("yue", "", "", "")
           [] OTHER -> RaiseLang

\* the distance of two maximized languages
TripleDistance(ma, mb) ==
    IF ma.language # mb.language THEN 8
    ELSE IF ma.script # mb.script THEN 5
    ELSE IF ma.territory # mb.territory THEN 3
    ELSE 0

FieldCount(p) ==
    (IF p.script = "" THEN 0 ELSE 1) + (IF p.territory = "" THEN 0 ELSE 1)

\* Language.distance, by the data in use; DistRaise when it raises
ParsedDistance(pa, pb) ==
    IF pa = RaiseLang \/ pb = RaiseLang THEN DistRaise
    ELSE IF pa = pb THEN 0
    ELSE CASE world.dist = "cldr" -> TripleDistance(MaximizeData(pa), MaximizeData(pb))
           [] world.dist = "off1" -> TripleDistance(MaximizeData(pa), MaximizeData(pb)) + 1
           [] world.dist = "skew" ->
                TripleDistance(MaximizeData(pa), MaximizeData(pb))
                + (IF FieldCount(pa) < FieldCount(pb) THEN 2 ELSE 0)
           [] OTHER ->
                IF pa.language # pb.language THEN DistRaise
                ELSE TripleDistance(MaximizeData(pa), MaximizeData(pb))

\* tag_distance(desired, supported): both tags are parsed with Language.get
\* first, so it raises whenever either parse does
tag_distance(a, b) == ParsedDistance(LanguageGet(a), LanguageGet(b))

(***************************************************************************)
(* Helpers of the script                                                   *)
(***************************************************************************)
\* _to_standard_tag without its try/except: the exception gets out
_to_standard_tag_unguarded(value) == standardize_tag(value)

\* _to_standard_tag, applied to the tag of its argument (lines 25-26 turn a
\* Language into its tag first): None when standardize_tag raises
NoneIfRaised(r) == IF r = RaiseStr THEN NoneStr ELSE r
_to_standard_tag(value) == NoneIfRaised(standardize_tag(value))

\* line 45, and line 44 when a distance lookup raised
NearBoth(forward, backward) ==
    IF forward = DistRaise \/ backward = DistRaise THEN FALSE
    ELSE forward <= MAX_NEAR_DISTANCE /\ backward <= MAX_NEAR_DISTANCE

\* _is_near_identical looking at the forward distance only
_is_near_identical_forward_only(base, candidate) ==
    NearBoth(tag_distance(base, candidate), tag_distance(base, candidate))

\* _is_near_identical
_is_near_identical(base, candidate) ==
    NearBoth(tag_distance(base, candidate), tag_distance(candidate, base))

\* add() appending without looking at seen
Push_without_seen(st, candidate, o) ==
    IF Truthy(candidate)
    THEN [st EXCEPT !.seen = @ \cup {candidate},
                    !.tags = Append(@, candidate),
                    !.origin = Append(@, o)]
    ELSE st

\* one candidate of add() (lines 64-66): appended unless falsy or seen
Push(st, candidate, o) ==
    IF Truthy(candidate) /\ candidate \notin st.seen
    THEN [st EXCEPT !.seen = @ \cup {candidate},
                    !.tags = Append(@, candidate),
                    !.origin = Append(@, o)]
    ELSE st

\* add() trying the raw form before the standardized one
CandidatesOf_raw_first(stdTag, raw) == << <<raw, 1>>, <<stdTag, 0>> >>

\* line 63: the candidates of one value, in the order add() tries them
CandidatesOf(stdTag, raw) == << <<stdTag, 0>>, <<raw, 1>> >>

\* lines 63-66: the candidates cs of one value, tried in turn
PushAll(st, cs, src, item) ==
    Push(Push(st, cs[1][1], <<src, item, cs[1][2]>>), cs[2][1], <<src, item, cs[2][2]>>)

AddTagged(st, t, raw, src, item) ==
    IF t = RaiseStr THEN [st EXCEPT !.raised = TRUE]
    ELSE PushAll(st, CandidatesOf(t, raw), src, item)

\* lines 60-66: one value of add(), given by its raw tag; src and item say
\* where it comes from.  raised is set when an exception leaves the call.
AddValue(st, raw, src, item) == AddTagged(st, _to_standard_tag(raw), raw, src, item)

\* lines 58-66: add(values), continuing from st
RECURSIVE AddFrom(_, _, _, _)
AddFrom(st, values, src, item) ==
    IF values = << >> THEN st
    ELSE IF st.raised THEN st
    ELSE AddFrom(AddValue(st, Head(values), src, item), Tail(values), src, item + 1)

add(values, src) ==
    AddFrom([tags |-> tags, seen |-> seen, origin |-> origin, raised |-> FALSE],
            values, src, 1)

(***************************************************************************)
(* Inputs                                                                  *)
(***************************************************************************)
MaxWords == 2

\* positional words a user may type ("" is << >>)
Words == { << >>, <<"en">>, <<"en", "us">>, <<"en", "US", "posix">>, <<"haw">>,
           <<"zh">>, <<"yue">>, <<"he">>, <<"zxx">>, <<"zz">>,
           <<"English">>, <<"American">>, <<"Cantonese">> }

WordLists == UNION { [1..n -> Words] : n \in 0..MaxWords }

\* the library data the run finds: how distances come out, and what is broken
Worlds == { [dist |-> "cldr", fault |-> "none"],
            [dist |-> "off1", fault |-> "none"],
            [dist |-> "skew", fault |-> "none"],
            [dist |-> "broken", fault |-> "none"],
            [dist |-> "cldr", fault |-> "maximize"],
            [dist |-> "cldr", fault |-> "minimize"],
            [dist |-> "cldr", fault |-> "names"],
            [dist |-> "off1", fault |-> "script_names"] }

\* Language objects a caller may hand to _collect_related_codes, among them
\* Language.make() results the parser never produces
CallerLanguages == { MkLang("en", "", "", ""), MkLang("haw", "", "US", ""),
                     MkLang("zh", "Hans", "", ""), MkLang("cmn", "", "", ""),
                     MkLang("", "", "", ""), MkLang("x!", "", "US", "") }
CallerBaseTags == { NoneStr, << >>, <<"en", "US">>, <<"zh">>, <<"x!">> }

NoArgv == [help |-> FALSE, simple |-> FALSE, words |-> << >>]

InitLocals ==
    /\ exit = NoExit /\ stdout = << >> /\ stderr = << >> /\ calls = {}
    /\ query = NoneStr /\ lang = NoneLang /\ tag = NoneStr /\ maximized = NoneLang
    /\ related = << >> /\ pidx = 0
    /\ tags = << >> /\ seen = {} /\ origin = << >>
    /\ primary = NoneStr /\ reference = NoneStr /\ filtered = << >> /\ idx = 0
    /\ result = << >>

InitMain ==
    /\ entry = "main"
    /\ world \in Worlds
    /\ argv \in [help : BOOLEAN, simple : BOOLEAN, words : WordLists]
    /\ pc = "start"
    /\ c_lang = NoneLang /\ c_maximized = NoneLang /\ c_base_tag = NoneStr
    /\ InitLocals

InitCollect ==
    /\ entry = "collect"
    /\ world \in Worlds
    /\ argv = NoArgv
    /\ pc = "c_add_lang"
    /\ c_lang \in CallerLanguages
    /\ c_maximized \in {NoneLang, MaximizeData(c_lang), MkLang("en", "Latn", "US", "posix")}
    /\ c_base_tag \in CallerBaseTags
    /\ InitLocals

Init == InitMain \/ InitCollect

(***************************************************************************)
(* main                                                                    *)
(***************************************************************************)
\* " ".join(words)
RECURSIVE Join(_)
Join(ws) ==
    IF ws = << >> THEN << >>
    ELSE IF Len(ws) = 1 THEN ws[1]
    ELSE ws[1] \o <<" ">> \o Join(Tail(ws))

RECURSIVE LStrip(_)
LStrip(s) == IF s # << >> /\ s[1] = " " THEN LStrip(Tail(s)) ELSE s
RECURSIVE RStrip(_)
RStrip(s) == IF s # << >> /\ s[Len(s)] = " " THEN RStrip(SubSeq(s, 1, Len(s) - 1)) ELSE s
\* the query taken without strip()
Strip_absent(s) == s

\* str.strip()
Strip(s) == RStrip(LStrip(s))

Line(k, v) == [k |-> k, v |-> v]

\* the except clause of main (lines 240-242), or the exception leaving
\* _collect_related_codes when it was called directly
Throw ==
    /\ pc' = IF entry = "main" THEN "done" ELSE "raised"
    /\ exit' = IF entry = "main" THEN 1 ELSE exit
    /\ stderr' = IF entry = "main" THEN Append(stderr, Line("langcodes:", << >>)) ELSE stderr

\* parser.error / argparse's own errors: usage on stderr, SystemExit(2)
ParserError ==
    /\ pc' = "done"
    /\ exit' = 2
    /\ stderr' = Append(stderr, Line("usage:", << >>))

\* lines 190-202
ParseArgs ==
    /\ pc = "start"
    /\ IF argv.help
       THEN /\ pc' = "done" /\ exit' = 0
            /\ stdout' = Append(stdout, Line("usage:", << >>))
            /\ UNCHANGED <<stderr, query>>
       ELSE IF argv.words = << >>
       THEN ParserError /\ UNCHANGED <<stdout, query>>
       ELSE LET q == Strip(Join(argv.words))
            IN  IF ~Truthy(q)
                THEN ParserError /\ UNCHANGED <<stdout, query>>
                ELSE /\ query' = q /\ pc' = "resolve"
                     /\ UNCHANGED ioVars
    /\ UNCHANGED <<envVars, calls, lang, tag, maximized, related, pidx,
                   argVars, accVars, filterVars>>

\* simple mode falling through to the full output
AfterResolve_fallthrough(simple) == "header"

\* where main goes after resolving: lines 207-209 / 212-214 return at once
AfterResolve(simple) == IF simple THEN "done" ELSE "header"

\* lines 205-209: the query is a valid tag
ResolveTag ==
    /\ pc = "resolve"
    /\ tag_is_valid(query)
    /\ calls' = calls \cup {"Language.get"}
    /\ LET l == LanguageGet(query)
           dn == display_name(l)
       IN  IF l = RaiseLang \/ (argv.simple /\ dn = RaiseStr)
           THEN Throw /\ UNCHANGED <<stdout, lang>>
           ELSE /\ lang' = l
                /\ pc' = AfterResolve(argv.simple)
                /\ IF argv.simple
                   THEN stdout' = Append(stdout, Line("", dn)) /\ exit' = 0
                   ELSE UNCHANGED <<stdout, exit>>
                /\ UNCHANGED stderr
    /\ UNCHANGED <<envVars, query, tag, maximized, related, pidx,
                   argVars, accVars, filterVars>>

\* lines 210-214: anything else is looked up as a name
ResolveName ==
    /\ pc = "resolve"
    /\ ~tag_is_valid(query)
    /\ calls' = calls \cup {"find"}
    /\ LET l == find(query)
           st == IF l = RaiseLang THEN RaiseStr ELSE standardize_tag(to_tag(l))
           ds == IF l = RaiseLang THEN RaiseStr ELSE describe(l)
       IN  IF l = RaiseLang \/ (argv.simple /\ (st = RaiseStr \/ ds = RaiseStr))
           THEN Throw /\ UNCHANGED <<stdout, lang>>
           ELSE /\ lang' = l
                /\ pc' = AfterResolve(argv.simple)
                /\ IF argv.simple
                   THEN stdout' = Append(stdout, Line("", st \o <<":", " ">> \o ds)) /\ exit' = 0
                   ELSE UNCHANGED <<stdout, exit>>
                /\ UNCHANGED stderr
    /\ UNCHANGED <<envVars, query, tag, maximized, related, pidx,
                   argVars, accVars, filterVars>>

\* the query preferred to the standardized tag
MainTag_query_first(l, q) ==
    IF Truthy(q) THEN q ELSE _to_standard_tag(to_tag(l))

\* line 216: tag = _to_standard_tag(lang) or query
MainTag(l, q) ==
    LET t == _to_standard_tag(to_tag(l))
    IN  IF Truthy(t) THEN t ELSE q

\* lines 216-220
PrintHeader ==
    /\ pc = "header"
    /\ LET t == MainTag(lang, query)
           description == describe(lang)
       IN  IF t = RaiseStr \/ description = RaiseStr
           THEN Throw /\ UNCHANGED <<stdout, tag>>
           ELSE /\ tag' = t
                /\ stdout' = stdout \o <<Line("Tag:", t), Line("Name:", description)>>
                /\ pc' = "script"
                /\ UNCHANGED <<exit, stderr>>
    /\ UNCHANGED <<envVars, calls, query, lang, maximized, related, pidx,
                   argVars, accVars, filterVars>>

\* lang.maximize() without its try/except
TryMaximize_unguarded(l) == maximize(l)

\* lines 222-225: maximized = lang.maximize(), None when it raises
TryMaximize(l) ==
    LET m == maximize(l)
    IN  IF m = RaiseLang THEN NoneLang ELSE m

\* line 227: getattr(maximized, "script", None) or "Unknown"
LikelyScriptOf(m) ==
    IF m = NoneLang \/ m.script = "" THEN <<"Unknown">> ELSE <<m.script>>

\* lines 222-228
PrintLikelyScript ==
    /\ pc = "script"
    /\ calls' = calls \cup {"maximize"}
    /\ LET m == TryMaximize(lang)
       IN  IF m = RaiseLang
           THEN Throw /\ UNCHANGED <<stdout, maximized>>
           ELSE /\ maximized' = m
                /\ stdout' = Append(stdout, Line("Likely script:", LikelyScriptOf(m)))
                /\ pc' = "call"
                /\ UNCHANGED <<exit, stderr>>
    /\ UNCHANGED <<envVars, query, lang, tag, related, pidx,
                   argVars, accVars, filterVars>>

\* line 230: the call _collect_related_codes(lang, maximized=maximized, base_tag=tag)
CallCollect ==
    /\ pc = "call"
    /\ calls' = calls \cup {"_collect_related_codes"}
    /\ c_lang' = lang /\ c_maximized' = maximized /\ c_base_tag' = tag
    /\ pc' = "c_add_lang"
    /\ UNCHANGED <<envVars, ioVars, mainVars, accVars, filterVars>>

(***************************************************************************)
(* _collect_related_codes                                                  *)
(***************************************************************************)
\* an add() call as a step: the accumulated list grows, or the exception
\* that left add() leaves the function
Commit(st, next) ==
    IF st.raised
    THEN Throw /\ UNCHANGED accVars
    ELSE /\ tags' = st.tags /\ seen' = st.seen /\ origin' = st.origin
         /\ pc' = next
         /\ UNCHANGED <<exit, stderr>>

AddStep(values, src, next) == \E st \in {add(values, src)} : Commit(st, next)

\* line 68: add([lang])
AddCanonical ==
    /\ pc = "c_add_lang"
    /\ AddStep(<<to_tag(c_lang)>>, 1, "c_minimize")
    /\ UNCHANGED <<envVars, stdout, calls, mainVars, argVars, filterVars>>

\* lines 70-73: minimized = lang.minimize(), None when it raises
TryMinimize(l) ==
    LET m == minimize(l)
    IN  IF m = RaiseLang THEN NoneLang ELSE m

\* lines 70-75
AddMinimized ==
    /\ pc = "c_minimize"
    /\ LET minimized == TryMinimize(c_lang)
       IN  IF minimized = RaiseLang
           THEN Throw /\ UNCHANGED accVars
           ELSE AddStep(IF minimized = NoneLang THEN << >> ELSE <<to_tag(minimized)>>,
                        2, "c_maximize")
    /\ UNCHANGED <<envVars, stdout, calls, mainVars, argVars, filterVars>>

\* lines 77-84: maximize unless the caller did, then add([maximized])
AddMaximized ==
    /\ pc = "c_maximize"
    /\ LET m == IF c_maximized = NoneLang THEN TryMaximize(c_lang) ELSE c_maximized
       IN  IF m = RaiseLang
           THEN Throw /\ UNCHANGED <<accVars, c_maximized>>
           ELSE /\ c_maximized' = m
                /\ AddStep(IF m = NoneLang THEN << >> ELSE <<to_tag(m)>>, 3,
                           IF m = NoneLang THEN "c_macro" ELSE "c_components")
    /\ UNCHANGED <<envVars, stdout, calls, mainVars, c_lang, c_base_tag, filterVars>>

\* lines 90-98: the variants of maximized
VariantsOf(m) == IF m.variant = "" THEN << >> ELSE <<m.variant>>

\* lines 109-116, for one variant
VariantComponents(base, script, territory, variant) ==
    << <<base, variant>> >>
    \o (IF script # "" THEN << <<base, script, variant>> >> ELSE << >>)
    \o (IF territory # "" THEN << <<base, territory, variant>> >> ELSE << >>)
    \o (IF script # "" /\ territory # ""
        THEN << <<base, script, territory, variant>> >> ELSE << >>)

RECURSIVE AllVariantComponents(_, _, _, _)
AllVariantComponents(base, script, territory, variants) ==
    IF variants = << >> THEN << >>
    ELSE VariantComponents(base, script, territory, Head(variants))
         \o AllVariantComponents(base, script, territory, Tail(variants))

\* lines 86-116: the language/script/territory/variant combinations
Components(m) ==
    LET base == m.language
        script == m.script
        territory == m.territory
    IN  IF base = "" THEN << >>
        ELSE << <<base>> >>
             \o (IF script # "" THEN << <<base, script>> >> ELSE << >>)
             \o (IF territory # "" THEN << <<base, territory>> >> ELSE << >>)
             \o (IF script # "" /\ territory # ""
                 THEN << <<base, script, territory>> >> ELSE << >>)
             \o AllVariantComponents(base, script, territory, VariantsOf(m))

\* lines 86-118
AddComponents ==
    /\ pc = "c_components"
    /\ AddStep(Components(c_maximized), 4, "c_macro")
    /\ UNCHANGED <<envVars, stdout, calls, mainVars, argVars, filterVars>>

\* a one-element list of a looked-up code, or nothing when the lookup is falsy
Maybe(code) == IF code = "" THEN << >> ELSE << <<code>> >>

\* lines 120-130: macrolanguage members, then the macrolanguage parent;
\* line 121 skips all the table lookups when lang has no language
AddMacrolanguage ==
    /\ pc = "c_macro"
    /\ LET base_language == c_lang.language
       IN  IF base_language = ""
           THEN pc' = "c_reference" /\ UNCHANGED <<accVars, exit, stderr>>
           ELSE \E st \in {AddFrom(add(KeysWithValue(MACROLANGUAGES, base_language), 5),
                                   Maybe(DictGet(MACROLANGUAGES, base_language)), 6, 1)} :
                    Commit(st, "c_normalized")
    /\ UNCHANGED <<envVars, stdout, calls, mainVars, argVars, filterVars>>

\* lines 132-140: the same over NORMALIZED_MACROLANGUAGES
AddNormalizedMacrolanguage ==
    /\ pc = "c_normalized"
    /\ LET base_language == c_lang.language
       IN  \E st \in {AddFrom(add(KeysWithValue(NORMALIZED_MACROLANGUAGES, base_language), 7),
                              Maybe(DictGet(NORMALIZED_MACROLANGUAGES, base_language)), 8, 1)} :
               Commit(st, "c_replacements")
    /\ UNCHANGED <<envVars, stdout, calls, mainVars, argVars, filterVars>>

\* lines 142-152: both comprehensions list the keys replaced by base_language
AddReplacements ==
    /\ pc = "c_replacements"
    /\ LET base_language == c_lang.language
       IN  \E st \in {AddFrom(add(KeysWithValue(LANGUAGE_REPLACEMENTS, base_language), 9),
                              KeysWithValue(LANGUAGE_REPLACEMENTS, base_language), 10, 1)} :
               Commit(st, "c_alpha3")
    /\ UNCHANGED <<envVars, stdout, calls, mainVars, argVars, filterVars>>

\* lines 154-161: the alpha-3 code, then the bibliographic one
AddAlpha3 ==
    /\ pc = "c_alpha3"
    /\ LET base_language == c_lang.language
       IN  \E st \in {AddFrom(add(Maybe(DictGet(LANGUAGE_ALPHA3, base_language)), 11),
                              Maybe(DictGet(LANGUAGE_ALPHA3_BIBLIOGRAPHIC, base_language)),
                              12, 1)} :
               Commit(st, "c_reference")
    /\ UNCHANGED <<envVars, stdout, calls, mainVars, argVars, filterVars>>

\* line 164: reference = base_tag or primary or lang.to_tag()
ReferenceOf(base_tag, prim, l) ==
    IF Truthy(base_tag) THEN base_tag
    ELSE IF Truthy(prim) THEN prim
    ELSE to_tag(l)

\* line 167: the list returned when there is no reference
Unfiltered(ts, prim) == SelectSeq(ts, LAMBDA t : Truthy(t) /\ t # prim)

\* where the function returns to
Returned == IF entry = "main" THEN "print" ELSE "done"

\* lines 163-169
ChooseReference ==
    /\ pc = "c_reference"
    /\ LET prim == _to_standard_tag(to_tag(c_lang))
           ref == ReferenceOf(c_base_tag, prim, c_lang)
       IN  IF prim = RaiseStr
           THEN Throw /\ UNCHANGED filterVars
           ELSE /\ primary' = prim
                /\ reference' = ref
                /\ filtered' = << >>
                /\ IF ~Truthy(ref)
                   THEN result' = Unfiltered(tags, prim) /\ idx' = idx /\ pc' = Returned
                   ELSE result' = result /\ idx' = 1 /\ pc' = "c_filter"
                /\ UNCHANGED <<exit, stderr>>
    /\ UNCHANGED <<envVars, stdout, calls, mainVars, argVars, accVars>>

\* lines 173-176: candidate_lang = Language.get(candidate), None when it raises
CandidateLang(candidate) ==
    LET l == LanguageGet(candidate)
    IN  IF l = RaiseLang THEN NoneLang ELSE l

\* lines 178-183: a US-territory tag of a language outside the allowlist
UsBlocked(candidate_lang) ==
    /\ candidate_lang # NoneLang
    /\ Upper(candidate_lang.territory) = "US"
    /\ Lower(candidate_lang.language) \notin US_TERRITORY_LANG_ALLOWLIST

\* the loop without the comparison with primary
Keeps_without_primary(ref, prim, candidate) ==
    /\ Truthy(candidate)
    /\ ~UsBlocked(CandidateLang(candidate))
    /\ _is_near_identical(ref, candidate)

\* the loop without the US-territory filter
Keeps_without_us_filter(ref, prim, candidate) ==
    /\ Truthy(candidate)
    /\ candidate # prim
    /\ _is_near_identical(ref, candidate)

\* lines 171-185: whether the loop appends candidate to filtered
Keeps(ref, prim, candidate) ==
    /\ Truthy(candidate)
    /\ candidate # prim
    /\ ~UsBlocked(CandidateLang(candidate))
    /\ _is_near_identical(ref, candidate)

\* lines 170-185, one candidate
FilterCandidate ==
    /\ pc = "c_filter"
    /\ idx <= Len(tags)
    /\ filtered' = IF Keeps(reference, primary, tags[idx])
                   THEN Append(filtered, tags[idx]) ELSE filtered
    /\ idx' = idx + 1
    /\ UNCHANGED <<envVars, pc, ioVars, calls, mainVars, argVars, accVars,
                   primary, reference, result>>

\* line 186
ReturnFiltered ==
    /\ pc = "c_filter"
    /\ idx > Len(tags)
    /\ result' = filtered
    /\ pc' = Returned
    /\ UNCHANGED <<envVars, ioVars, calls, mainVars, argVars, accVars,
                   primary, reference, filtered, idx>>

(***************************************************************************)
(* main, after the call                                                    *)
(***************************************************************************)
\* lines 230-232
PrintRelatedHeader ==
    /\ pc = "print"
    /\ related' = result
    /\ pidx' = 1
    /\ stdout' = IF result # << >>
                 THEN Append(stdout, Line("Identical or near-identical codes:", << >>))
                 ELSE stdout
    /\ pc' = "codes"
    /\ UNCHANGED <<envVars, exit, stderr, calls, query, lang, tag, maximized,
                   argVars, accVars, filterVars>>

\* lines 234-237: the display name of a related code, "Unknown" when
\* Language.get or display_name raises
CodeDisplayName(code) ==
    LET l == LanguageGet(code)
        dn == IF l = RaiseLang THEN RaiseStr ELSE display_name(l)
    IN  IF dn = RaiseStr THEN <<"Unknown">> ELSE dn

\* lines 233-238, one code
PrintCode ==
    /\ pc = "codes"
    /\ pidx <= Len(related)
    /\ LET display == CodeDisplayName(related[pidx])
       IN  IF display = RaiseStr
           THEN Throw /\ UNCHANGED <<stdout, pidx>>
           ELSE /\ stdout' = Append(stdout, Line("  -", related[pidx] \o <<":", " ">> \o display))
                /\ pidx' = pidx + 1
                /\ UNCHANGED <<pc, exit, stderr>>
    /\ UNCHANGED <<envVars, calls, query, lang, tag, maximized, related,
                   argVars, accVars, filterVars>>

\* line 239
ReturnSuccess ==
    /\ pc = "codes"
    /\ pidx > Len(related)
    /\ pc' = "done"
    /\ exit' = 0
    /\ UNCHANGED <<envVars, stdout, stderr, calls, mainVars, argVars, accVars, filterVars>>

Next ==
    \/ ParseArgs
    \/ ResolveTag
    \/ ResolveName
    \/ PrintHeader
    \/ PrintLikelyScript
    \/ CallCollect
    \/ AddCanonical
    \/ AddMinimized
    \/ AddMaximized
    \/ AddComponents
    \/ AddMacrolanguage
    \/ AddNormalizedMacrolanguage
    \/ AddReplacements
    \/ AddAlpha3
    \/ ChooseReference
    \/ FilterCandidate
    \/ ReturnFiltered
    \/ PrintRelatedHeader
    \/ PrintCode
    \/ ReturnSuccess

Spec == Init /\ [][Next]_vars

(***************************************************************************)
(* Vocabulary of the properties                                            *)
(***************************************************************************)
Range(sq) == { sq[i] : i \in DOMAIN sq }
NoDuplicates(sq) == \A i, j \in DOMAIN sq : i # j => sq[i] # sq[j]

RECURSIVE IsSubsequence(_, _)
IsSubsequence(a, b) ==
    IF a = << >> THEN TRUE
    ELSE IF b = << >> THEN FALSE
    ELSE IF Head(a) = Head(b) THEN IsSubsequence(Tail(a), Tail(b))
    ELSE IsSubsequence(a, Tail(b))

\* _collect_related_codes has been entered / has returned its list
Collecting == entry = "collect" \/ "_collect_related_codes" \in calls
HasReturned ==
    \/ entry = "collect" /\ pc = "done"
    \/ entry = "main" /\ "_collect_related_codes" \in calls /\ pc \in {"print", "codes", "done"}
MainDone == entry = "main" /\ pc = "done"

\* the standardized tag of the language being inspected, when there is one
StandardTagAvailable == standardize_tag(to_tag(c_lang)) # RaiseStr
\* the tag that identifies the language: its standardized tag, its raw tag
\* when standardization is unavailable
IdentifyingTag ==
    IF StandardTagAvailable THEN standardize_tag(to_tag(c_lang)) ELSE to_tag(c_lang)
\* the reference the distances are taken from
ReferenceTag == IF Truthy(c_base_tag) THEN c_base_tag ELSE IdentifyingTag

\* a tag with territory US and a language outside {en, es}: by its parsed
\* subtags, by its text when the parser rejects it
UsOutsideAllowlist(c) ==
    IF LanguageGet(c) # RaiseLang
    THEN LanguageGet(c).territory = "US" /\ LanguageGet(c).language \notin {"en", "es"}
    ELSE /\ \E i \in 2..Len(c) : Upper(c[i]) = "US"
         /\ Lower(c[1]) \notin {"en", "es"}

WithinThreshold(a, b) == tag_distance(a, b) \in 0..1 /\ tag_distance(b, a) \in 0..1

\* a library call made for candidate c fails
LookupFails(c) ==
    \/ standardize_tag(c) = RaiseStr
    \/ LanguageGet(c) = RaiseLang
    \/ tag_distance(ReferenceTag, c) = DistRaise
    \/ tag_distance(c, ReferenceTag) = DistRaise

\* C1: the related-code list never contains the tag that identifies the
\* language (the tag main prints on its Tag: line), whatever the arguments
\* and also when the language cannot be standardized.
C1_NeverContainsPrimary ==
    \A c \in Range(filtered) \cup Range(result) :
        /\ Collecting => c # IdentifyingTag
        /\ entry = "main" => c # tag

\* C1 witness: a list was returned although the identifying tag was among
\* the candidates and within the distance threshold of the reference.
C1_Witness ==
    /\ HasReturned /\ result # << >>
    /\ IdentifyingTag \in seen
    /\ WithinThreshold(ReferenceTag, IdentifyingTag)

\* C2: no returned tag has territory US and a language outside {en, es}.
C2_NoForeignUsTags ==
    \A c \in Range(filtered) \cup Range(result) : ~UsOutsideAllowlist(c)

\* C2 witness: such a tag was a candidate, near the reference and not the
\* primary tag, and the list returned without it is not empty.
C2_Witness ==
    /\ HasReturned /\ result # << >>
    /\ \E c \in seen : /\ UsOutsideAllowlist(c)
                       /\ c # IdentifyingTag
                       /\ WithinThreshold(ReferenceTag, c)

\* C3: every returned candidate is within MAX_NEAR_DISTANCE of the
\* reference in both directions, and neither lookup failed for it.
C3_SymmetricDistance ==
    \A c \in Range(filtered) \cup Range(result) : WithinThreshold(ReferenceTag, c)

\* C3 witness: a non-empty list was returned, and a candidate near in one
\* direction only was left out.
C3_Witness ==
    /\ HasReturned /\ result # << >>
    /\ \E c \in seen : /\ c # IdentifyingTag
                       /\ ~UsOutsideAllowlist(c)
                       /\ tag_distance(ReferenceTag, c) \in 0..1
                       /\ tag_distance(c, ReferenceTag) > 1
                       /\ c \notin Range(result)

\* C4: the accumulated list holds no tag twice and its elements are exactly
\* seen; so the filtered and the returned list hold no tag twice either.
C4_Deduplicated ==
    /\ NoDuplicates(tags)
    /\ Range(tags) = seen
    /\ NoDuplicates(filtered)
    /\ NoDuplicates(result)

\* C4 witness: a run whose sources produced the same tag several times (the
\* replacement table is read twice, and the canonical tag is its own
\* standardized form) returned a non-empty list.
C4_Witness ==
    /\ HasReturned /\ result # << >>
    /\ KeysWithValue(LANGUAGE_REPLACEMENTS, c_lang.language) # << >>
    /\ standardize_tag(to_tag(c_lang)) = to_tag(c_lang)

\* C5: a failing lookup for one candidate is never fatal: the function never
\* lets an exception out, a candidate with a failing lookup is not returned,
\* and the list is what the other candidates alone would give.
C5_FailuresSkipped ==
    /\ pc # "raised"
    /\ (entry = "main" /\ "_collect_related_codes" \in calls) => exit # 1
    /\ \A c \in Range(filtered) \cup Range(result) : ~LookupFails(c)
    /\ HasReturned =>
         result = SelectSeq(SelectSeq(tags, LAMBDA c : ~LookupFails(c)),
                            LAMBDA c : /\ c # IdentifyingTag
                                       /\ ~UsOutsideAllowlist(c)
                                       /\ WithinThreshold(ReferenceTag, c))

\* C5 witness: a candidate the parser rejects and one whose distance lookup
\* fails were both collected, and a non-empty list was returned.
C5_Witness ==
    /\ HasReturned /\ result # << >>
    /\ \E c \in seen : LanguageGet(c) = RaiseLang
    /\ \E c \in seen : LookupFails(c)

\* the language main resolves the query to, RaiseLang when it cannot
Resolution ==
    IF tag_is_valid(query) THEN LanguageGet(query) ELSE find(query)
\* a name lookup main needs for its output raises
OutputNameRaises ==
    IF argv.simple /\ tag_is_valid(query)
    THEN display_name(Resolution) = RaiseStr
    ELSE describe(Resolution) = RaiseStr
\* the joined query is empty or blank: every word is
JoinedQueryEmpty ==
    \A i \in DOMAIN argv.words : \A j \in DOMAIN argv.words[i] : argv.words[i][j] = " "

\* C6 as stated: every invocation ends with status 0 (after a successful
\* resolution) or with status 1 and a message on standard error, also when
\* the joined query is empty or blank.
C6_AsStated ==
    (MainDone /\ ~argv.help /\ argv.words # << >>) =>
        \/ exit = 0 /\ lang # NoneLang
        \/ exit = 1 /\ stderr # << >>

\* C6 amended: with a non-empty joined query main ends with 0 when the
\* resolution and the name lookups it prints succeed, and otherwise with 1
\* and one message on standard error; with no or a blank query it ends with
\* argparse's status 2 and a usage message; -h ends with 0.
C6_ExitStatus ==
    /\ exit \in {NoExit, 0, 1, 2}
    /\ (entry = "main" /\ pc # "done") => exit = NoExit
    /\ MainDone =>
         IF argv.help THEN exit = 0 /\ stderr = << >>
         ELSE IF JoinedQueryEmpty
         THEN exit = 2 /\ stdout = << >> /\ Len(stderr) = 1 /\ stderr[1].k = "usage:"
         ELSE IF Resolution = RaiseLang \/ OutputNameRaises
         THEN exit = 1 /\ Len(stderr) = 1 /\ stderr[1].k = "langcodes:"
         ELSE exit = 0 /\ stderr = << >> /\ lang = Resolution

\* C6 witness: a blank joined query (two empty words) ended with status 2.
C6_Witness ==
    /\ MainDone /\ ~argv.help
    /\ Len(argv.words) > 1 /\ JoinedQueryEmpty
    /\ exit = 2

\* a line of standard output that shows tag t
ShowsTag(ln, t) ==
    \/ ln = Line("Tag:", t)
    \/ ln.k = "" /\ Len(ln.v) > Len(t) /\ SubSeq(ln.v, 1, Len(t) + 1) = t \o <<":">>
PrintsTag(t) == \E i \in DOMAIN stdout : ShowsTag(stdout[i], t)

\* C7 as stated: for a valid tag main prints the standardized form of the
\* query, in full and in simple mode.
C7_AsStated ==
    (MainDone /\ exit = 0 /\ ~argv.help /\ tag_is_valid(query)) =>
        PrintsTag(standardize_tag(query))

\* C7 amended: a valid tag is resolved by parsing, never by name search, and
\* in full mode the tag printed is the standardized query, while simple mode
\* prints only the display name of the parsed language; anything else is
\* resolved by name search, the tag printed (in both modes) is the
\* standardized tag of the language found, and a search that finds nothing
\* ends with status 1 and nothing on standard output.
C7_ResolverOutput ==
    (MainDone /\ ~argv.help /\ ~JoinedQueryEmpty) =>
        IF tag_is_valid(query)
        THEN /\ calls \cap {"Language.get", "find"} = {"Language.get"}
             /\ exit = 0 =>
                  IF argv.simple
                  THEN stdout = <<Line("", display_name(LanguageGet(query)))>>
                  ELSE /\ stdout[1] = Line("Tag:", standardize_tag(query))
                       /\ \A i \in DOMAIN stdout :
                            stdout[i].k = "Tag:" => stdout[i].v = standardize_tag(query)
        ELSE /\ calls \cap {"Language.get", "find"} = {"find"}
             /\ exit = 0 => /\ PrintsTag(standardize_tag(to_tag(find(query))))
                            /\ ShowsTag(stdout[1], standardize_tag(to_tag(find(query))))
             /\ find(query) = RaiseLang => exit = 1 /\ stdout = << >>

\* C7 witness: simple mode, a valid tag that is not in standard form, and a
\* successful run.
C7_Witness ==
    /\ MainDone /\ exit = 0 /\ ~argv.help /\ argv.simple
    /\ tag_is_valid(query) /\ standardize_tag(query) # query

FullModeKinds == {"Tag:", "Name:", "Likely script:", "Identical or near-identical codes:"}
CountKind(k) == Cardinality({ i \in DOMAIN stdout : stdout[i].k = k })

CodeLine(i) ==
    Line("  -", result[i] \o <<":", " ">>
                \o (IF display_name(LanguageGet(result[i])) = RaiseStr
                    THEN <<"Unknown">> ELSE display_name(LanguageGet(result[i]))))

\* C9: once main has printed Tag: and Name:, a failing maximize or display
\* name lookup is not fatal: Likely script: is printed (Unknown when maximize
\* fails or gives no script), every related code is printed (its name
\* Unknown when the lookup fails), and main returns 0.
C9_MaximizeFailureNotFatal ==
    /\ (entry = "main" /\ "maximize" \in calls) =>
          /\ exit \in {NoExit, 0}
          /\ stdout[3] = Line("Likely script:",
                              IF maximize(lang) = RaiseLang \/ maximize(lang).script = ""
                              THEN <<"Unknown">> ELSE <<maximize(lang).script>>)
    /\ (MainDone /\ "maximize" \in calls) =>
          /\ exit = 0
          /\ "_collect_related_codes" \in calls
          /\ Len(stdout) = IF result = << >> THEN 3 ELSE 4 + Len(result)
          /\ \A i \in DOMAIN result : stdout[4 + i] = CodeLine(i)

\* C9 witness: maximize raised, and main still printed related codes and
\* returned 0.
C9_Witness ==
    /\ MainDone /\ exit = 0 /\ "maximize" \in calls
    /\ maximize(lang) = RaiseLang
    /\ result # << >>

\* lexicographic order on <<source, item, form>>
Before(o1, o2) ==
    \/ o1[1] < o2[1]
    \/ o1[1] = o2[1] /\ o1[2] < o2[2]
    \/ o1[1] = o2[1] /\ o1[2] = o2[2] /\ o1[3] < o2[3]

\* C10: candidates sit in the accumulated list in source order (canonical,
\* minimized, maximized, combinations, macrolanguage members and parent,
\* normalized-macrolanguage members and parent, replacements, alpha-3,
\* bibliographic alpha-3), the standardized form of a value before its raw
\* form, and the returned list is a subsequence of the accumulated list.
C10_OrderPreserved ==
    /\ Len(origin) = Len(tags)
    /\ \A i, j \in DOMAIN origin : i < j => Before(origin[i], origin[j])
    /\ \A i \in DOMAIN origin :
          /\ origin[i][1] \in 1..12
          /\ origin[i][3] = 0 => standardize_tag(tags[i]) = tags[i]
          /\ origin[i][1] = 1 => tags[i] \in {IdentifyingTag, to_tag(c_lang)}
    /\ IsSubsequence(filtered, tags)
    /\ IsSubsequence(result, tags)

\* C10 witness: a returned list of several tags, shorter than the
\* accumulated list, one of whose values gave both its standardized and its
\* raw form.
C10_Witness ==
    /\ HasReturned /\ Len(result) >= 2 /\ Len(result) < Len(tags)
    /\ \E i \in DOMAIN origin : /\ i + 1 \in DOMAIN origin
                                /\ origin[i][3] = 0 /\ origin[i + 1][3] = 1
                                /\ origin[i][2] = origin[i + 1][2]
                                /\ origin[i][1] = origin[i + 1][1]
====
